---- MODULE Spec2Model ----
(***************************************************************************)
(* The product catalog service of main.py: the products table, the upload  *)
(* directory, and the request handlers create_product, update_product,     *)
(* delete_product and get_product, run by one asyncio event loop.  A       *)
(* handler runs atomically from one `await` to the next; the only awaits   *)
(* of the handlers are `await image.read()`, reached with the target file  *)
(* already opened for writing (and so truncated).                          *)
(***************************************************************************)
EXTENDS Naturals, Sequences, FiniteSets, TLC

VARIABLES
    rows,       \* the products table
    files,      \* the upload directory: file path -> content
    proc,       \* the request each slot is handling, and where its handler stands
    received,   \* requests received so far
    last        \* the slot that received the latest request

vars == <<rows, files, proc, received, last>>

----------------------------------------------------------------------------
(* Bounds of the model *)

\* Most rows the table holds: a Create is only received below this count.
MaxRows == 2

\* Most images a product's list holds after an Update (retained + new files).
MaxImages == 2

\* Distinct CURRENT_TIMESTAMP values the store may stamp a row with.
MaxTime == 1

\* Requests the service receives in one run.
MaxRequests == 5

\* Request slots handled concurrently by the event loop.
Procs == {1, 2}

----------------------------------------------------------------------------
(* Text: strings are sequences of one-character (or opaque token) strings *)

Digits == <<"0", "1", "2", "3", "4", "5", "6", "7", "8", "9">>

RECURSIVE Decimal(_)
\* str(n) / the digits of format spec "d"
Decimal(n) == IF n < 10 THEN <<Digits[n + 1]>>
              ELSE Decimal(n \div 10) \o <<Digits[(n % 10) + 1]>>

RECURSIVE ZeroPad(_, _)
\* the "04" of f"{count + 1:04d}": zeros on the left up to a minimum width
ZeroPad(s, width) == IF Len(s) >= width THEN s ELSE ZeroPad(<<"0">> \o s, width)

FormatId(n) == <<"R", "W">> \o ZeroPad(Decimal(n), 4)

RECURSIVE LastPart(_)
\* filename.split('.')[-1]: what follows the last "." (the whole name without one)
LastPart(s) == IF s = <<>> THEN <<>>
               ELSE IF s[Len(s)] = "." THEN <<>>
               ELSE LastPart(SubSeq(s, 1, Len(s) - 1)) \o <<s[Len(s)]>>

RECURSIVE Lstrip(_)
\* image_path.lstrip('/')
Lstrip(s) == IF s # <<>> /\ s[1] = "/" THEN Lstrip(Tail(s)) ELSE s

UploadDir == <<"static/uploads/">>

FileName(product_id, index, ext) == product_id \o <<"_">> \o Decimal(index) \o <<".">> \o ext

FilePath(filename) == UploadDir \o filename

PublicPath(filename) == <<"/">> \o UploadDir \o filename

Range(s) == {s[i] : i \in DOMAIN s}

----------------------------------------------------------------------------
(* JSON text: a sequence of tokens; a string literal carries its value *)

LB == [t |-> "[", v |-> <<>>]
RB == [t |-> "]", v |-> <<>>]
Comma == [t |-> ",", v |-> <<>>]
Lit(s) == [t |-> "str", v |-> s]

RECURSIVE DumpItems(_)
DumpItems(list) == IF list = <<>> THEN <<>>
                   ELSE IF Len(list) = 1 THEN <<Lit(list[1])>>
                   ELSE <<Lit(list[1]), Comma>> \o DumpItems(Tail(list))

\* json.dumps of a list of strings
JsonDumps(list) == <<LB>> \o DumpItems(list) \o <<RB>>

RECURSIVE ParseItems(_)
\* the items between the brackets: literal (, literal)*; <<FALSE>> on a syntax error
ParseItems(toks) ==
    IF toks = <<>> THEN <<FALSE>>
    ELSE IF toks[1].t # "str" THEN <<FALSE>>
    ELSE IF Len(toks) = 1 THEN <<TRUE, <<toks[1].v>>>>
    ELSE IF toks[2].t # "," THEN <<FALSE>>
    ELSE LET rest == ParseItems(SubSeq(toks, 3, Len(toks)))
         IN  IF rest[1] THEN <<TRUE, <<toks[1].v>> \o rest[2]>> ELSE <<FALSE>>

\* json.loads: ok = FALSE stands for JSONDecodeError; kind tells a list from a str
JsonLoads(text) ==
    IF text = <<>> THEN [ok |-> FALSE, kind |-> "none", val |-> <<>>]
    ELSE IF Len(text) = 1 /\ text[1].t = "str"
         THEN [ok |-> TRUE, kind |-> "str", val |-> <<text[1].v>>]
    ELSE IF text[1].t = "[" /\ text[Len(text)].t = "]" /\ Len(text) >= 2
         THEN IF Len(text) = 2 THEN [ok |-> TRUE, kind |-> "list", val |-> <<>>]
              ELSE LET items == ParseItems(SubSeq(text, 2, Len(text) - 1))
                   IN  IF items[1] THEN [ok |-> TRUE, kind |-> "list", val |-> items[2]]
                       ELSE [ok |-> FALSE, kind |-> "none", val |-> <<>>]
    ELSE [ok |-> FALSE, kind |-> "none", val |-> <<>>]

\* `json.loads(col) if col else []` of get_product
LoadColumn(text) == IF text = <<>> THEN [ok |-> TRUE, kind |-> "list", val |-> <<>>]
                    ELSE JsonLoads(text)

----------------------------------------------------------------------------
(* Configuration and request inputs *)

ADMIN_USERNAME == "rimu_admin"
ADMIN_PASSWORD == "rimu2024secure"

Usernames == {ADMIN_USERNAME, "guest"}
Passwords == {ADMIN_PASSWORD, "letmein"}
Creds == [username : Usernames, password : Passwords]
NoCreds == [username |-> "", password |-> ""]

\* a verification that forgets the password
VerifyAdmin_UsernameOnly(credentials) == credentials.username = ADMIN_USERNAME

\* secrets.compare_digest on both parts
VerifyAdmin(credentials) ==
    LET correct_username == credentials.username = ADMIN_USERNAME
        correct_password == credentials.password = ADMIN_PASSWORD
    IN  correct_username /\ correct_password

\* the scalar form fields and the sizes/colors text of a Create or Update
Payloads ==
    { [name |-> "Tee", type |-> "apparel", category |-> "tops", details |-> "cotton",
       price |-> 1999, sizes |-> JsonDumps(<<<<"S">>, <<"M">>>>),
       colors |-> JsonDumps(<<<<"red">>>>)],
      [name |-> "Cap", type |-> "hats", category |-> "caps", details |-> "wool",
       price |-> 500, sizes |-> <<LB>>, colors |-> JsonDumps(<<>>)] }

NoPayload == [name |-> "", type |-> "", category |-> "", details |-> "",
              price |-> 0, sizes |-> <<>>, colors |-> <<>>]

\* upload parts: an UploadFile's filename and content
PartA == [filename |-> <<"a", ".", "jpg">>, content |-> "c1"]
PartB == [filename |-> <<"b", ".", "v2", ".", "jpg">>, content |-> "c2"]
PartE == [filename |-> <<>>, content |-> ""]

CreateBatches == {<<PartA>>, <<PartA, PartB>>, <<PartE>>, <<PartE, PartA>>}
UpdateBatches == CreateBatches \cup {<<>>}

\* the inputs of the interleaved runs: one payload, batches of at most one file
RacePayloads == {pl \in Payloads : pl.name = "Tee"}
RaceCreateBatches == {<<PartA>>, <<PartE>>}
RaceUpdateBatches == {<<PartA>>, <<>>}

Times == 1..MaxTime

TargetIds == {FormatId(n) : n \in 1..MaxRows}

----------------------------------------------------------------------------
(* The store and the upload directory *)

IdsOf(rs) == {r.product_id : r \in rs}

\* SELECT ... WHERE product_id = ? (product_id is UNIQUE: at most one row)
RowOf(rs, product_id) == CHOOSE r \in rs : r.product_id = product_id

\* SELECT COUNT(*) FROM products, then f"RW{count + 1:04d}"
GenerateProductId(rs) == FormatId(Cardinality(rs) + 1)

\* open(filepath, "wb"): creates the file, or truncates the one that is there
OpenWb(fs, path) == [q \in DOMAIN fs \cup {path} |-> IF q = path THEN "" ELSE fs[q]]

\* f.write(content) and close; a file unlinked while it was open keeps no name
WriteFile(fs, path, content, unlinked) ==
    IF unlinked THEN fs
    ELSE [q \in DOMAIN fs \cup {path} |-> IF q = path THEN content ELSE fs[q]]

\* os.remove of each listed path inside try/except: a missing file is passed over
RemoveFiles(fs, paths) ==
    LET gone == {Lstrip(paths[i]) : i \in DOMAIN paths}
    IN  [q \in DOMAIN fs \ gone |-> fs[q]]

\* INSERT INTO products: the UNIQUE constraint on product_id refuses a duplicate
InsertRow(rs, row) == IF row.product_id \in IdsOf(rs) THEN rs ELSE rs \cup {row}

\* UPDATE products SET ... WHERE product_id = ?: no matching row, no change
UpdateRow(rs, product_id, payload, image_paths) ==
    { IF r.product_id = product_id
      THEN [r EXCEPT !.name = payload.name, !.type = payload.type,
                     !.category = payload.category, !.details = payload.details,
                     !.price = payload.price, !.sizes = payload.sizes,
                     !.colors = payload.colors, !.images = JsonDumps(image_paths)]
      ELSE r : r \in rs }

\* a DELETE that lost its WHERE clause
DeleteRow_NoWhere(rs, product_id) == {}

\* DELETE FROM products WHERE product_id = ?
DeleteRow(rs, product_id) == {r \in rs : r.product_id # product_id}

NewRow(product_id, payload, image_paths, now) ==
    [product_id |-> product_id, name |-> payload.name, type |-> payload.type,
     category |-> payload.category, details |-> payload.details,
     price |-> payload.price, sizes |-> payload.sizes, colors |-> payload.colors,
     images |-> JsonDumps(image_paths), created_at |-> now]

\* position (from 1) of the first part at or after `from` with a filename, 0 if none
NextNamed(images, from) ==
    LET named == {i \in from..Len(images) : images[i].filename # <<>>}
    IN  IF named = {} THEN 0 ELSE CHOOSE i \in named : \A j \in named : i <= j

NamedCount(images) == Cardinality({i \in DOMAIN images : images[i].filename # <<>>})

----------------------------------------------------------------------------
(* Request slots *)

Idle == [op |-> "none", pc |-> "idle", creds |-> NoCreds, product_id |-> <<>>,
         payload |-> NoPayload, images |-> <<>>, idx |-> 0, image_paths |-> <<>>,
         existing |-> <<>>, filename |-> <<>>, unlinked |-> FALSE,
         result |-> 0, found |-> FALSE, raced |-> FALSE]

Init == /\ rows = {}
        /\ files = << >>
        /\ proc = [p \in Procs |-> Idle]
        /\ received = 0
        /\ last = 1

\* a slot takes a new request when its last one has been answered
Receivable(p) == /\ proc[p].pc \in {"idle", "done"}
                 /\ received < MaxRequests
                 /\ received' = received + 1
                 /\ last' = p

\* verify_admin raising HTTPException(401) before the handler body runs
Unauthorized(p, op, credentials) ==
    /\ proc' = [proc EXCEPT ![p] = [Idle EXCEPT !.op = op, !.pc = "done",
                                    !.creds = credentials, !.result = 401]]
    /\ UNCHANGED <<rows, files>>

\* slot q is a create_product that has counted the rows to product_id and not yet inserted
Racing(q, product_id) ==
    proc[q].op = "create" /\ proc[q].pc = "reading" /\ proc[q].product_id = product_id

\* slot p moves on to `next`; a create that counted the same rows as p is noted as raced
Advance(p, me, next) ==
    [q \in Procs |-> IF q = p THEN next
                     ELSE IF me.raced /\ Racing(q, me.product_id)
                     THEN [proc[q] EXCEPT !.raced = TRUE]
                     ELSE proc[q]]

\* the INSERT, commit and return of create_product
CreateInsert(p, me, now) ==
    /\ rows' = InsertRow(rows, NewRow(me.product_id, me.payload, me.image_paths, now))
    /\ proc' = Advance(p, me, [me EXCEPT !.pc = "done", !.idx = 0, !.filename = <<>>,
                                         !.unlinked = FALSE,
                                         !.result = IF me.product_id \in IdsOf(rows)
                                                    THEN 500 ELSE 200])

\* the loop of create_product from part `from` to its next await or to the INSERT
CreateLoop(p, me, fs, from, now) ==
    LET i == NextNamed(me.images, from)
    IN  IF i = 0
        THEN /\ files' = fs
             /\ CreateInsert(p, me, now)
        ELSE LET ext == LastPart(me.images[i].filename)
                 filename == FileName(me.product_id, i - 1, ext)
             IN  /\ files' = OpenWb(fs, FilePath(filename))
                 /\ proc' = Advance(p, me, [me EXCEPT !.pc = "reading", !.idx = i,
                                                      !.filename = filename,
                                                      !.unlinked = FALSE])
                 /\ UNCHANGED rows

\* POST /api/admin/products, up to its first await
CreateProduct(p, payloads, batches) ==
    /\ Receivable(p)
    /\ Cardinality(rows) < MaxRows
    /\ \E credentials \in Creds :
         IF ~VerifyAdmin(credentials) THEN Unauthorized(p, "create", credentials)
         ELSE \E payload \in payloads, images \in batches, now \in Times :
              CreateLoop(p, [Idle EXCEPT !.op = "create", !.creds = credentials,
                                         !.product_id = GenerateProductId(rows),
                                         !.payload = payload, !.images = images,
                                         !.raced = \E q \in Procs \ {p} :
                                                      Racing(q, GenerateProductId(rows))],
                         files, 1, now)

\* create_product resumed after `await image.read()`
CreateResume(p) ==
    /\ proc[p].op = "create" /\ proc[p].pc = "reading"
    /\ UNCHANGED <<received, last>>
    /\ \E now \in Times :
         LET me == proc[p]
             written == WriteFile(files, FilePath(me.filename), me.images[me.idx].content,
                                me.unlinked)
             public == PublicPath(me.filename)
         IN  CreateLoop(p, [me EXCEPT !.image_paths = Append(me.image_paths, public)],
                        written, me.idx + 1, now)

RECURSIVE Pick(_, _)
\* the elements of list s at the positions in S, in their order
Pick(s, S) == IF s = <<>> THEN <<>>
              ELSE LET init == Pick(SubSeq(s, 1, Len(s) - 1), S \ {Len(s)})
                   IN  IF Len(s) \in S THEN Append(init, s[Len(s)]) ELSE init

SubLists(s) == {Pick(s, S) : S \in SUBSET (DOMAIN s)}

\* the images list a row stores
StoredImages(rs, product_id) ==
    IF product_id \in IdsOf(rs) THEN JsonLoads(RowOf(rs, product_id).images).val ELSE <<>>

\* existing_images form values: the stored paths the admin page resends, or broken text
ExistingTexts(product_id) ==
    {JsonDumps(l) : l \in SubLists(StoredImages(rows, product_id))} \cup {<<LB>>}

\* the UPDATE, commit and return of update_product
UpdateWrite(p, me) ==
    /\ rows' = UpdateRow(rows, me.product_id, me.payload, me.image_paths)
    /\ proc' = [proc EXCEPT ![p] = [me EXCEPT !.pc = "done", !.idx = 0, !.filename = <<>>,
                                    !.unlinked = FALSE, !.result = 200,
                                    !.found = me.product_id \in IdsOf(rows)]]

\* the loop of update_product from part `from` to its next await or to the UPDATE
UpdateLoop(p, me, fs, from) ==
    LET i == NextNamed(me.images, from)
    IN  IF i = 0
        THEN /\ files' = fs
             /\ UpdateWrite(p, me)
        ELSE LET ext == LastPart(me.images[i].filename)
                 filename == FileName(me.product_id, Len(me.image_paths) + (i - 1), ext)
             IN  /\ files' = OpenWb(fs, FilePath(filename))
                 /\ proc' = [proc EXCEPT ![p] = [me EXCEPT !.pc = "reading", !.idx = i,
                                                 !.filename = filename,
                                                 !.unlinked = FALSE]]
                 /\ UNCHANGED rows

\* an update_product that raises before it writes anything
UpdateFails(p, me, status) ==
    /\ proc' = [proc EXCEPT ![p] = [me EXCEPT !.pc = "done", !.result = status]]
    /\ UNCHANGED <<rows, files>>

\* PUT /api/admin/products/{product_id}, up to its first await
UpdateProduct(p, payloads, batches) ==
    /\ Receivable(p)
    /\ \E credentials \in Creds :
       IF ~VerifyAdmin(credentials) THEN Unauthorized(p, "update", credentials)
       ELSE
       \E product_id \in TargetIds, payload \in payloads, images \in batches :
       \E existing_images \in ExistingTexts(product_id) :
         LET me == [Idle EXCEPT !.op = "update", !.creds = credentials,
                                !.product_id = product_id, !.payload = payload,
                                !.images = images]
             existing_image_list == JsonLoads(existing_images)
         IN  IF product_id \notin IdsOf(rows) THEN UpdateFails(p, me, 404)
             ELSE IF ~existing_image_list.ok \/ existing_image_list.kind # "list"
                  THEN UpdateFails(p, [me EXCEPT !.found = TRUE], 500)
             ELSE /\ Len(existing_image_list.val) + NamedCount(images) <= MaxImages
                  /\ LET go == [me EXCEPT !.existing = existing_image_list.val,
                                          !.image_paths = existing_image_list.val,
                                          !.found = TRUE]
                     IN  IF images # <<>> /\ images[1].filename # <<>>
                         THEN UpdateLoop(p, go, files, 1)
                         ELSE /\ files' = files
                              /\ UpdateWrite(p, go)

\* update_product resumed after `await image.read()`
UpdateResume(p) ==
    /\ proc[p].op = "update" /\ proc[p].pc = "reading"
    /\ UNCHANGED <<received, last>>
    /\ LET me == proc[p]
           written == WriteFile(files, FilePath(me.filename), me.images[me.idx].content,
                                me.unlinked)
           public == PublicPath(me.filename)
       IN  UpdateLoop(p, [me EXCEPT !.image_paths = Append(me.image_paths, public)],
                      written, me.idx + 1)

\* the body of delete_product on a store and a directory: what it leaves and returns
DeleteEffect(rs, fs, product_id) ==
    LET row == product_id \in IdsOf(rs)
        images == IF row THEN JsonLoads(RowOf(rs, product_id).images).val ELSE <<>>
    IN  [rows |-> DeleteRow(rs, product_id), files |-> RemoveFiles(fs, images),
         status |-> 200, found |-> row,
         gone |-> {Lstrip(images[i]) : i \in DOMAIN images}]

\* DELETE /api/admin/products/{product_id}: no await, one step
DeleteProduct(p) ==
    /\ Receivable(p)
    /\ \E credentials \in Creds :
         IF ~VerifyAdmin(credentials) THEN Unauthorized(p, "delete", credentials)
         ELSE \E product_id \in TargetIds :
              LET out == DeleteEffect(rows, files, product_id)
              IN  /\ rows' = out.rows
                  /\ files' = out.files
                  /\ proc' = [q \in Procs |->
                        IF q = p
                        THEN [Idle EXCEPT !.op = "delete", !.pc = "done",
                                          !.creds = credentials, !.product_id = product_id,
                                          !.result = out.status, !.found = out.found]
                        ELSE IF proc[q].pc = "reading" /\ FilePath(proc[q].filename) \in out.gone
                        THEN [proc[q] EXCEPT !.unlinked = TRUE]
                        ELSE proc[q]]

\* the status get_product answers with
GetStatus(rs, product_id) ==
    IF product_id \notin IdsOf(rs) THEN 404
    ELSE LET product == RowOf(rs, product_id)
         IN  IF /\ LoadColumn(product.sizes).ok
                /\ LoadColumn(product.colors).ok
                /\ LoadColumn(product.images).ok
             THEN 200 ELSE 500

\* GET /api/products/{product_id}: no credentials, no await
GetProduct(p) ==
    /\ Receivable(p)
    /\ \E product_id \in TargetIds :
         proc' = [proc EXCEPT ![p] = [Idle EXCEPT !.op = "get", !.pc = "done",
                                      !.product_id = product_id,
                                      !.found = product_id \in IdsOf(rows),
                                      !.result = GetStatus(rows, product_id)]]
    /\ UNCHANGED <<rows, files>>

----------------------------------------------------------------------------
(* Specifications *)

\* requests interleave at their awaits
Next == \E p \in Procs :
           \/ CreateProduct(p, RacePayloads, RaceCreateBatches)
           \/ CreateResume(p)
           \/ UpdateProduct(p, RacePayloads, RaceUpdateBatches)
           \/ UpdateResume(p)
           \/ DeleteProduct(p)
           \/ GetProduct(p)

Spec == Init /\ [][Next]_vars

\* one request at a time: a single slot, which takes a request only when it has
\* answered the one before
SeqProcs == {1}

SeqNext == \E p \in SeqProcs :
              \/ CreateProduct(p, Payloads, CreateBatches)
              \/ CreateResume(p)
              \/ UpdateProduct(p, Payloads, UpdateBatches)
              \/ UpdateResume(p)
              \/ DeleteProduct(p)
              \/ GetProduct(p)

SpecSeq == Init /\ [][SeqNext]_vars

----------------------------------------------------------------------------
(* Properties *)

AdminPair == [username |-> ADMIN_USERNAME, password |-> ADMIN_PASSWORD]

\* slot p receives a request in this step
Started(p) == received' = received + 1 /\ last' = p

\* slot p's request is answered in this step
Finished(p) == proc'[p].pc = "done" /\ (Started(p) \/ proc[p].pc = "reading")

\* slot p's handler runs in this step
Ran(p) == Started(p) \/ (proc[p].pc = "reading" /\ proc'[p] # proc[p] /\ proc'[p].op = proc[p].op)

\* what the directory holds at a path
FileAt(fs, path) == IF path \in DOMAIN fs THEN <<fs[path]>> ELSE <<>>

IsJsonArray(text) == JsonLoads(text).ok /\ JsonLoads(text).kind = "list"

UniqueIds == \A r1, r2 \in rows : r1.product_id = r2.product_id => r1 = r2

\* 'RW' followed by four decimal digits
IsProductIdForm(product_id) ==
    /\ Len(product_id) = 6
    /\ product_id[1] = "R" /\ product_id[2] = "W"
    /\ \A i \in 3..6 : product_id[i] \in Range(Digits)

\* the positions of the parts of a batch that carry a filename, in upload order
NamedPositions(images) ==
    Pick([i \in DOMAIN images |-> i], {i \in DOMAIN images : images[i].filename # <<>>})

\* C1: in a sequential run every Create is given an id 'RW' + 4 digits that no row
\* of the store has, so its insert succeeds, and product_ids stay unique.
C1_SequentialCreateGetsFreshId ==
    /\ UniqueIds
    /\ \A p \in Procs :
         (proc[p].op = "create" /\ proc[p].result # 401) =>
            /\ IsProductIdForm(proc[p].product_id)
            /\ proc[p].pc = "reading" => proc[p].product_id \notin IdsOf(rows)
            /\ proc[p].pc = "done" => proc[p].result = 200

\* C2: two Creates that both counted the rows before either inserted hold the same
\* product_id; the store never holds that id twice, exactly one of the two inserted
\* and the other ended in a storage error (500).
C2_RacingCreatesOneWinner ==
    /\ UniqueIds
    /\ \A p, q \in Procs :
         (/\ p # q
          /\ proc[p].op = "create" /\ proc[q].op = "create"
          /\ proc[p].raced /\ proc[q].raced) =>
            /\ proc[p].product_id = proc[q].product_id
            /\ (proc[p].pc = "done" /\ proc[q].pc = "done") =>
                  {proc[p].result, proc[q].result} = {200, 500}

\* C3: a successful Update with retained list E and n new files leaves the row with
\* images = E followed by the n new public paths in upload order, the submitted
\* name/type/category/details/price/sizes/colors, and its product_id and created_at.
C3_UpdateStoresRetainedThenNew ==
    [][\A p \in Procs :
         (Finished(p) /\ proc'[p].op = "update" /\ proc'[p].result = 200) =>
            LET me == proc'[p]
                E == me.existing
                new == NamedPositions(me.images)
            IN  \E r \in rows' :
                  /\ r.product_id = me.product_id
                  /\ LET stored == JsonLoads(r.images).val
                     IN  /\ Len(stored) = Len(E) + Len(new)
                         /\ SubSeq(stored, 1, Len(E)) = E
                         /\ \A k \in DOMAIN new :
                              LET path == stored[Len(E) + k]
                              IN  /\ SubSeq(path, 1, 2) = <<"/">> \o UploadDir
                                  /\ FileAt(files', Lstrip(path)) = <<me.images[new[k]].content>>
                  /\ r.name = me.payload.name /\ r.type = me.payload.type
                  /\ r.category = me.payload.category /\ r.details = me.payload.details
                  /\ r.price = me.payload.price
                  /\ r.sizes = me.payload.sizes /\ r.colors = me.payload.colors
                  /\ \E old \in rows : /\ old.product_id = r.product_id
                                       /\ old.created_at = r.created_at]_vars

\* C4: a Delete with the admin credentials for a product_id that has no row answers
\* success and leaves every row and every file as it was; after any Delete the id
\* has no row, so a second Delete of it is that no-op and answers success too.
C4_DeleteOfMissingIsNoop ==
    [][\A p \in Procs :
         (Started(p) /\ proc'[p].op = "delete" /\ proc'[p].creds = AdminPair) =>
            /\ proc'[p].pc = "done" /\ proc'[p].result = 200
            /\ proc'[p].product_id \notin IdsOf(rows) => (rows' = rows /\ files' = files)
            /\ proc'[p].product_id \notin IdsOf(rows')
            /\ \A r \in rows : r.product_id # proc'[p].product_id => r \in rows']_vars

\* a Delete of an id without a row has answered, with rows and files in the store
C4_Witness ==
    \E p \in Procs : /\ proc[p].op = "delete" /\ proc[p].pc = "done"
                     /\ proc[p].result = 200 /\ ~proc[p].found
                     /\ rows # {} /\ DOMAIN files # {}

\* C5: a Create, Update or Delete whose username/password pair is not exactly the
\* configured pair ends with 401 and changes no row and no file; with the configured
\* pair the request gets past verify_admin.
C5_AdminRoutesNeedThePair ==
    [][\A p \in Procs :
         (Started(p) /\ proc'[p].op \in {"create", "update", "delete"}) =>
            /\ proc'[p].creds # AdminPair =>
                 /\ proc'[p].pc = "done" /\ proc'[p].result = 401
                 /\ rows' = rows /\ files' = files
            /\ proc'[p].creds = AdminPair => proc'[p].result # 401]_vars

\* a request with the right username and a wrong password was refused, next to an
\* Update that got through
C5_Witness ==
    /\ rows # {}
    /\ \E p \in Procs : /\ proc[p].result = 401
                        /\ proc[p].creds.username = ADMIN_USERNAME
                        /\ proc[p].creds.password # ADMIN_PASSWORD
    /\ \E p \in Procs : proc[p].op = "update" /\ proc[p].result = 200

\* C6: the sizes, colors and images every row stores are valid JSON arrays, so a Get
\* of a row that exists deserializes them.
C6_ColumnsAreJsonArrays ==
    /\ \A r \in rows : IsJsonArray(r.sizes) /\ IsJsonArray(r.colors) /\ IsJsonArray(r.images)
    /\ \A p \in Procs : (proc[p].op = "get" /\ proc[p].found) => proc[p].result = 200

\* C7: an Update answers success only if a row with its product_id is in the store
\* when its UPDATE is applied; without a row it answers 404, no file written, no row
\* changed.
C7_UpdateSuccessNeedsRow ==
    [][\A p \in Procs :
         (Finished(p) /\ proc'[p].op = "update" /\ proc'[p].creds = AdminPair) =>
            /\ proc'[p].result = 200 => proc'[p].product_id \in IdsOf(rows)
            /\ proc'[p].result = 404 => (rows' = rows /\ files' = files)]_vars

\* C8: the file at position k (from 0) of an upload batch is written as
\* {product_id}_{index}.{ext}, index = k in Create and r + k in Update (r retained
\* paths), and /static/uploads/ + that filename is appended to the images list.
C8_UploadIndex ==
    \A p \in Procs :
       proc[p].pc = "reading" =>
          LET me == proc[p]
              r == IF me.op = "update" THEN Len(me.existing) ELSE 0
              k == me.idx - 1
              filename == FileName(me.product_id, r + k, LastPart(me.images[me.idx].filename))
          IN  /\ me.filename = filename
              /\ FilePath(filename) \in DOMAIN files \/ me.unlinked

\* C9: an Update whose existing_images is a sub-list of the stored images writes no
\* new file to a retained path, and its images list holds no path twice.
C9_UpdateKeepsRetainedFiles ==
    \A p \in Procs :
       (/\ proc[p].op = "update" /\ proc[p].result \notin {401, 404, 500}
        /\ proc[p].pc = "reading" => proc[p].existing \in SubLists(StoredImages(rows, proc[p].product_id))) =>
          /\ proc[p].pc = "reading" => PublicPath(proc[p].filename) \notin Range(proc[p].existing)
          /\ \A i, j \in DOMAIN proc[p].image_paths :
                proc[p].image_paths[i] = proc[p].image_paths[j] => i = j

\* C10: in a sequential run a Create never writes to a path listed in the images of
\* a row of the store: those files are the same after each of its steps.
C10_CreateLeavesStoredImages ==
    [][\A p \in Procs :
         (Ran(p) /\ proc'[p].op = "create") =>
            \A r \in rows : \A path \in Range(JsonLoads(r.images).val) :
               FileAt(files', Lstrip(path)) = FileAt(files, Lstrip(path))]_vars

====
